---- MODULE Spec2Model ----
(***************************************************************************)
(* Model of the component registry and the configuration persistence of    *)
(* src/webui/webui_manager.py (class WebuiManager) and of the save button   *)
(* handler of src/webui/components/load_save_config_tab.py.                 *)
(***************************************************************************)
EXTENDS Integers, Sequences, FiniteSets, TLC

\* ------------------------------------------------------------- bounds
\* add_components calls made for the tabs other than the load/save tab
MaxRegs == 2
\* entries of one components_dict of those tabs
MaxDict == 1
\* saves that open a file for writing (both entry points together)
MaxSaves == 2
\* last second the clock reaches
MaxClock == 1

\* ------------------------------------------------------------- values
None == "None"

\* widget handles
TabWidgets == {"load_config_button", "save_config_button", "config_status", "config_file"}
InputWidgets == {"temperature", "run_button"}
Widgets == InputWidgets \cup TabWidgets

\* the gradio class of a widget handle
WidgetClass(w) ==
    CASE w \in {"load_config_button", "save_config_button", "run_button"} -> "Button"
      [] w = "config_file" -> "File"
      [] w = "config_status" -> "Textbox"
      [] OTHER -> "Slider"

\* the widget's `interactive` attribute (None when the constructor leaves it unset)
WidgetInteractive(w) ==
    CASE w = "config_file" -> "True"
      [] w = "config_status" -> "False"
      [] OTHER -> None

\* str.lower() on the three values str(interactive) takes
Lower(s) ==
    CASE s = "True" -> "true"
      [] s = "False" -> "false"
      [] s = "None" -> "none"
      [] OTHER -> s

\* the test of save_config on one component
IsSavable(comp) ==
    /\ WidgetClass(comp) # "Button"
    /\ WidgetClass(comp) # "File"
    /\ Lower(WidgetInteractive(comp)) # "false"

\* values a widget may hold: a number, a tuple, an object json cannot encode
Values == {"0.7", "(1, 2)", "<object>"}

StatusId == "load_save_config.config_status"

\* ------------------------------------------------------------- paths
CwdDir == "./webui_settings"
AppDir == "/app/webui_settings"
EnvDir == "/data/settings"
NewDir == "/mnt/alt"

PathJoin(d, name) == d \o "/" \o name

\* datetime.now().strftime("%Y%m%d-%H%M%S") of a clock reading (whole seconds;
\* the format has no finer field)
Strftime(t, sep) == "20250101" \o sep \o "00000" \o ToString(t)

\* ------------------------------------------------------------- dicts
\* An ordered dict is a sequence of <<key, value>> pairs with distinct keys.
DictKeys(d) == {d[i][1] : i \in 1..Len(d)}
DictValues(d) == [i \in 1..Len(d) |-> d[i][2]]
DictGet(d, k) == (CHOOSE i \in 1..Len(d) : d[i][1] = k) 
DictLookup(d, k) == d[DictGet(d, k)][2]
\* d[k] = v: an existing key keeps its position
DictSet(d, k, v) ==
    IF k \in DictKeys(d)
    THEN [i \in 1..Len(d) |-> IF d[i][1] = k THEN <<k, v>> ELSE d[i]]
    ELSE Append(d, <<k, v>>)

\* an unordered dict is a function; m[k] = v
MapSet(m, k, v) == [x \in DOMAIN m \cup {k} |-> IF x = k THEN v ELSE m[x]]
EmptyMap == [x \in {} |-> None]

VARIABLES
    id_to_component,    \* ordered dict: component id -> widget
    component_to_id,    \* dict: widget -> component id
    settings_save_dir,  \* the manager's settings directory
    environ,            \* the process environment, fixed at start
    dirs,               \* directories on disk
    files,              \* files on disk: path -> content
    now,                \* the clock: the current second
    tab_created,        \* create_load_save_config_tab has run
    last,               \* the most recent operation and its outcome
    nregs,              \* add_components calls made for the other tabs
    save_log            \* the saves that opened a file so far, oldest first

vars == <<id_to_component, component_to_id, settings_save_dir, environ, dirs,
          files, now, tab_created, last, nregs, save_log>>

\* ------------------------------------------------------------- messages
\* an f-string status message: its fixed text and the value formatted into it
Msg(prefix, detail) == [prefix |-> prefix, detail |-> detail]
NoMsg == Msg(None, None)

\* what a block of code did: the exception raised in it (None: none), whether
\* that exception is still propagating, the value returned, the disk it
\* leaves, the filesystem calls it made, and for a save the file it opened
\* for writing and the mapping it dumped
Outcome(exc, ret, ds, fs, io, path, data) ==
    [exc |-> exc, raised |-> exc # None, ret |-> ret, dirs |-> ds, files |-> fs,
     io |-> io, path |-> path, data |-> data]

\* the exceptions that are OSError (IOError is its alias)
OSErrors == {"PermissionError", "FileNotFoundError", "FileExistsError"}

\* except IOError as e: return f"{prefix}{str(e)}"
ExceptIOError(out, prefix) ==
    IF out.raised /\ out.exc \in OSErrors
    THEN [out EXCEPT !.raised = FALSE, !.ret = Msg(prefix, out.exc)]
    ELSE out

\* a handler that lets everything but OSError through
ExceptOSErrorOnly(out, prefix) == ExceptIOError(out, prefix)

\* except Exception as e: return f"{prefix}{str(e)}"
ExceptException(out, prefix) ==
    IF out.raised
    THEN [out EXCEPT !.raised = FALSE, !.ret = Msg(prefix, out.exc)]
    ELSE out

\* ------------------------------------------------------------- filesystem
\* os.makedirs(d, exist_ok=True); ok: the OS lets the directory be created
MakeDirsExc(ds, d, ok) == IF d \in ds \/ ok THEN None ELSE "PermissionError"
MakeDirs(ds, d, ok) == IF ok THEN ds \cup {d} ELSE ds

\* what the OS may answer a makedirs of d: it is asked only for a directory
\* that is absent
MkOutcomes(d) == IF d \in dirs THEN {TRUE} ELSE BOOLEAN

\* open(path, "w"): the file is created or truncated; ok: the OS lets it
OpenWriteExc(ds, d, ok) ==
    IF d \notin ds THEN "FileNotFoundError"
    ELSE IF ~ok THEN "PermissionError" ELSE None

\* json text on disk: parsable with the object it encodes, or cut short
JsonText(obj) == [json |-> TRUE, obj |-> obj]
PartialText == [json |-> FALSE, obj |-> EmptyMap]

JsonEncodable(v) == v # "<object>"
\* a tuple is written as a JSON array
JsonEncode(v) == IF v = "(1, 2)" THEN "[1, 2]" ELSE v
\* json.dump(data, fw, indent=4): the text that reaches the file
JsonDumpExc(data) ==
    IF \A k \in DOMAIN data : JsonEncodable(data[k]) THEN None ELSE "TypeError"
JsonDump(data) ==
    IF JsonDumpExc(data) = None
    THEN JsonText([k \in DOMAIN data |-> JsonEncode(data[k])])
    ELSE PartialText

\* files a user may hand to the file picker (gradio stores uploads apart)
UploadDir == "/tmp/gradio"
Uploads ==
    PathJoin(UploadDir, "mixed.json") :>
        JsonText(("main.temperature" :> "0.7") @@ ("bogus.key" :> "0.7"))
MissingPath == PathJoin(UploadDir, "missing.json")

\* open(path, "r") then json.load
ReadExc(fs, path) ==
    IF path \notin DOMAIN fs \cup DOMAIN Uploads THEN "FileNotFoundError"
    ELSE IF ~(IF path \in DOMAIN fs THEN fs[path] ELSE Uploads[path]).json
         THEN "JSONDecodeError" ELSE None
JsonLoad(fs, path) == (IF path \in DOMAIN fs THEN fs[path] ELSE Uploads[path]).obj

\* ------------------------------------------------------------- registry
\* the loop of add_components over the items of components_dict
RECURSIVE AddLoop(_, _, _, _)
AddLoop(i2c, c2i, tab_name, items) ==
    IF items = <<>> THEN [id_to_component |-> i2c, component_to_id |-> c2i]
    ELSE LET comp_id == tab_name \o "." \o Head(items)[1]
             component == Head(items)[2]
         IN AddLoop(DictSet(i2c, comp_id, component),
                    MapSet(c2i, component, comp_id),
                    tab_name, Tail(items))

get_components == DictValues(id_to_component)
get_component_by_id(comp_id) == DictLookup(id_to_component, comp_id)
get_id_by_component(comp) == component_to_id[comp]

\* the record every operation leaves of itself
Last(op, arg, out, yields) ==
    [op |-> op, arg |-> arg, raised |-> out.raised, exc |-> out.exc,
     ret |-> out.ret, io |-> out.io, yields |-> yields,
     prev_dir |-> None, again |-> FALSE]
Quiet == Outcome(None, NoMsg, {}, EmptyMap, 0, None, EmptyMap)

\* save_log after a save: a save that opened a file for writing adds the
\* file, the mapping it dumped, the values it was passed and whether it
\* reported the file saved
Logged(op, out, args) ==
    IF out.path = None THEN save_log
    ELSE Append(save_log,
                [op |-> op, path |-> out.path, data |-> out.data, args |-> args,
                 saved |-> out.ret.prefix = "Settings saved to "])

\* the dicts a tab builder may pass: field names to widgets
FieldNames == {"temperature", "run_button"}
ComponentsDicts ==
    {d \in UNION {[1..n -> FieldNames \X InputWidgets] : n \in 1..MaxDict} :
        \A i, j \in 1..Len(d) : i # j => d[i][1] # d[j][1]}

AddComponents(tab_name, components_dict) ==
    /\ ~tab_created
    /\ nregs < MaxRegs
    /\ nregs' = nregs + 1
    /\ LET r == AddLoop(id_to_component, component_to_id, tab_name, components_dict)
       IN /\ id_to_component' = r.id_to_component
          /\ component_to_id' = r.component_to_id
    /\ last' = Last("add_components", tab_name, Quiet, <<>>)
    /\ UNCHANGED <<settings_save_dir, environ, dirs, files, now, tab_created, save_log>>

\* create_load_save_config_tab: builds the four widgets and registers them
TabComponents ==
    << <<"load_config_button", "load_config_button">>,
       <<"save_config_button", "save_config_button">>,
       <<"config_status", "config_status">>,
       <<"config_file", "config_file">> >>

CreateLoadSaveConfigTab ==
    /\ ~tab_created
    /\ LET r == AddLoop(id_to_component, component_to_id, "load_save_config", TabComponents)
       IN /\ id_to_component' = r.id_to_component
          /\ component_to_id' = r.component_to_id
    /\ tab_created' = TRUE
    /\ last' = Last("create_tab", "load_save_config", Quiet, <<>>)
    /\ UNCHANGED <<settings_save_dir, environ, dirs, files, now, nregs, save_log>>

\* ------------------------------------------------------------- save_config
\* the loop of save_config over all_components: the components dict
RECURSIVE CollectLoop(_, _, _, _)
CollectLoop(all_components, args, i, components) ==
    IF i > Len(all_components) THEN components
    ELSE LET comp == all_components[i]
         IN CollectLoop(all_components, args, i + 1,
                IF i <= Len(args) /\ IsSavable(comp)
                THEN MapSet(components, get_id_by_component(comp), args[i])
                ELSE components)

\* the try block of save_config
SaveConfigBody(args, mk_ok, open_ok) ==
    LET mkexc == MakeDirsExc(dirs, settings_save_dir, mk_ok)
        ds == MakeDirs(dirs, settings_save_dir, mk_ok)
        components == CollectLoop(get_components, args, 1, EmptyMap)
        config_name == Strftime(now, "-")
        save_path == PathJoin(settings_save_dir, config_name \o ".json")
        openexc == OpenWriteExc(ds, settings_save_dir, open_ok)
        dumpexc == JsonDumpExc(components)
        written == MapSet(files, save_path, JsonDump(components))
    IN IF mkexc # None
       THEN Outcome(mkexc, NoMsg, dirs, files, 1, None, EmptyMap)
       ELSE IF openexc # None
       THEN Outcome(openexc, NoMsg, ds, files, 2, None, EmptyMap)
       ELSE IF dumpexc # None
       THEN Outcome(dumpexc, NoMsg, ds, written, 2, save_path, components)
       ELSE Outcome(None, Msg("Settings saved to ", save_path), ds, written, 2,
                    save_path, components)

\* the values the caller passes, one per component, possibly fewer
ArgsFor(n, v) ==
    [i \in 1..n |-> IF get_components[i] \in DOMAIN v THEN v[get_components[i]] ELSE None]
\* no values at all, or one per registered component
SaveArgs ==
    {ArgsFor(n, v) : n \in {0, Len(get_components)},
                     v \in [{w \in InputWidgets : IsSavable(w)} -> Values]}

SaveConfig(args, mk_ok, open_ok) ==
    /\ tab_created
    /\ Len(save_log) < MaxSaves
    /\ LET out == ExceptException(SaveConfigBody(args, mk_ok, open_ok),
                                  "Error saving settings: ")
       IN /\ dirs' = out.dirs
          /\ files' = out.files
          /\ last' = Last("save_config", None, out, <<>>)
          /\ save_log' = Logged("save_config", out, args)
    /\ UNCHANGED <<id_to_component, component_to_id, settings_save_dir, environ,
                   now, tab_created, nregs>>

\* ------------------------------------------------------------- save button
\* the handler the "Save UI Settings" button is wired to
InDocker ==
    \/ environ.dockerenv
    \/ environ.DOCKER_CONTAINER # None
    \/ environ.WEBUI_SETTINGS_DIR # None
WrapperSaveDir ==
    IF InDocker
    THEN IF environ.WEBUI_SETTINGS_DIR # None THEN environ.WEBUI_SETTINGS_DIR ELSE AppDir
    ELSE CwdDir

SaveConfigWrapperBody(mk_ok, open_ok) ==
    LET in_docker == InDocker
        save_dir == WrapperSaveDir
        mkexc == MakeDirsExc(dirs, save_dir, mk_ok)
        ds == MakeDirs(dirs, save_dir, mk_ok)
        config_name == "settings_" \o Strftime(now, "_") \o ".json"
        save_path == PathJoin(save_dir, config_name)
        \* str(datetime.now()) reads microseconds: no two calls read the same
        config_data == ("timestamp" :> ToString(now) \o "." \o ToString(Len(save_log)))
                       @@ ("app_version" :> "1.0.0")
                       @@ ("saved_by" :> "save_config_wrapper")
                       @@ ("environment" :> IF in_docker THEN "docker" ELSE "host")
        openexc == OpenWriteExc(ds, save_dir, open_ok)
        written == MapSet(files, save_path, JsonDump(config_data))
    IN IF mkexc # None
       THEN Outcome(mkexc, NoMsg, dirs, files, 1, None, EmptyMap)
       ELSE IF openexc # None
       THEN ExceptException(
                ExceptIOError(Outcome(openexc, NoMsg, ds, files, 2, None, EmptyMap),
                              "Error saving settings (IO): "),
                "Error saving settings (write): ")
       ELSE IF save_path \in DOMAIN written
       THEN Outcome(None, Msg("Settings saved to ", save_path), ds, written, 3,
                    save_path, config_data)
       ELSE Outcome(None, Msg("Error: File could not be saved (not found after save)", None),
                    ds, written, 3, save_path, config_data)

SaveConfigWrapper(mk_ok, open_ok) ==
    /\ tab_created
    /\ Len(save_log) < MaxSaves
    /\ LET out == ExceptException(SaveConfigWrapperBody(mk_ok, open_ok),
                                  "Error saving settings: ")
       IN /\ dirs' = out.dirs
          /\ files' = out.files
          /\ last' = Last("save_config_wrapper", None, out, <<>>)
          /\ save_log' = Logged("save_config_wrapper", out, <<>>)
    /\ UNCHANGED <<id_to_component, component_to_id, settings_save_dir, environ,
                   now, tab_created, nregs>>

\* ------------------------------------------------------------- load_config
\* load_config without its test for an empty selection
LoadConfigBodyNoGuard(load_file) ==
    LET file_path == load_file
        rdexc == ReadExc(files, file_path)
    IN IF rdexc # None
       THEN Outcome(rdexc, NoMsg, dirs, files, 1, file_path, EmptyMap)
       ELSE Outcome(None, Msg("Settings loaded from ", file_path), dirs, files, 1,
                    file_path, JsonLoad(files, file_path))

\* the try block of load_config: what it yields, or the exception it ends with
LoadConfigBody(load_file) ==
    IF load_file = None
    THEN Outcome(None, Msg("No file selected", None), dirs, files, 0, None, EmptyMap)
    ELSE LET file_path == load_file
             rdexc == ReadExc(files, file_path)
         IN IF rdexc # None
            THEN Outcome(rdexc, NoMsg, dirs, files, 1, file_path, EmptyMap)
            ELSE Outcome(None, Msg("Settings loaded from ", file_path), dirs, files, 1,
                         file_path, JsonLoad(files, file_path))

\* a generator whose except block only logs
LoadConfigYieldsNoErrorEntry(out) ==
    IF out.exc # None THEN <<>> ELSE << (StatusId :> out.ret) >>

\* the dicts the generator yields: the status entry alone
LoadConfigYields(out) ==
    IF out.raised THEN <<>> ELSE << (StatusId :> out.ret) >>

LoadFiles == {None, MissingPath} \cup DOMAIN Uploads \cup DOMAIN files

LoadConfig(load_file) ==
    /\ tab_created
    /\ LET out == ExceptException(LoadConfigBody(load_file), "Error loading file: ")
       IN last' = Last("load_config", load_file, out, LoadConfigYields(out))
    /\ UNCHANGED <<id_to_component, component_to_id, settings_save_dir, environ,
                   dirs, files, now, tab_created, nregs, save_log>>

\* ------------------------------------------------------------- set_settings_dir
\* the assignment placed before makedirs
NewSettingsDirEager(new_dir, mkexc) == new_dir

\* self.settings_save_dir after the try block: assigned only past makedirs
NewSettingsDir(new_dir, mkexc) == IF mkexc = None THEN new_dir ELSE settings_save_dir

SetSettingsDirBody(new_dir, mk_ok) ==
    LET mkexc == MakeDirsExc(dirs, new_dir, mk_ok)
    IN IF mkexc # None
       THEN Outcome(mkexc, NoMsg, dirs, files, 1, settings_save_dir, EmptyMap)
       ELSE Outcome(None, Msg("Successfully set settings directory to: ", new_dir),
                    MakeDirs(dirs, new_dir, mk_ok), files, 1, settings_save_dir, EmptyMap)

SettingsDirArgs == {NewDir}

SetSettingsDir(new_dir, mk_ok) ==
    /\ tab_created
    /\ LET body == SetSettingsDirBody(new_dir, mk_ok)
           out == ExceptException(body, "Error setting directory: ")
       IN /\ dirs' = out.dirs
          /\ settings_save_dir' = NewSettingsDir(new_dir, body.exc)
          /\ last' = [Last("set_settings_dir", new_dir, out, <<>>) EXCEPT
                        !.prev_dir = settings_save_dir,
                        !.again = /\ last.op = "set_settings_dir"
                                  /\ last.arg = new_dir
                                  /\ last.exc = None]
    /\ UNCHANGED <<id_to_component, component_to_id, environ, files, now,
                   tab_created, nregs, save_log>>

\* ------------------------------------------------------------- clock
Tick ==
    /\ now < MaxClock
    /\ now' = now + 1
    /\ UNCHANGED <<id_to_component, component_to_id, settings_save_dir, environ,
                   dirs, files, tab_created, last, nregs, save_log>>

\* ------------------------------------------------------------- start
\* the environments of a start: on the host, in a container, and in a
\* container that names the settings directory
Environs ==
    {e \in [WEBUI_SETTINGS_DIR : {None, EnvDir}, DOCKER_CONTAINER : {None},
             dockerenv : BOOLEAN] :
        e.WEBUI_SETTINGS_DIR # None => e.dockerenv}
CtorArgs == {None}

\* WebuiManager.__init__ returned: its makedirs did not raise
Init ==
    /\ environ \in Environs
    /\ \E arg \in CtorArgs :
        settings_save_dir =
            IF arg # None THEN arg
            ELSE IF environ.WEBUI_SETTINGS_DIR # None THEN environ.WEBUI_SETTINGS_DIR
            ELSE CwdDir
    /\ dirs = {settings_save_dir}
    /\ id_to_component = <<>>
    /\ component_to_id = EmptyMap
    /\ files = EmptyMap
    /\ now = 0
    /\ tab_created = FALSE
    /\ nregs = 0
    /\ last = Last("init", None, Quiet, <<>>)
    /\ save_log = <<>>

Next ==
    \/ \E d \in ComponentsDicts : AddComponents("main", d)
    \/ CreateLoadSaveConfigTab
    \/ \E args \in SaveArgs, mk_ok \in MkOutcomes(settings_save_dir), open_ok \in BOOLEAN :
            SaveConfig(args, mk_ok, open_ok)
    \/ \E mk_ok \in MkOutcomes(WrapperSaveDir), open_ok \in BOOLEAN :
            SaveConfigWrapper(mk_ok, open_ok)
    \/ \E f \in LoadFiles : LoadConfig(f)
    \/ \E d \in SettingsDirArgs : \E mk_ok \in MkOutcomes(d) : SetSettingsDir(d, mk_ok)
    \/ Tick

Spec == Init /\ [][Next]_vars

\* The same program with the registrations of the other tabs fixed to one
\* tab, registered once, holding a slider and a button.
MainTabComponents ==
    << <<"temperature", "temperature">>, <<"run_button", "run_button">> >>

NextOps ==
    \/ nregs = 0 /\ AddComponents("main", MainTabComponents)
    \/ CreateLoadSaveConfigTab
    \/ \E args \in SaveArgs, mk_ok \in MkOutcomes(settings_save_dir), open_ok \in BOOLEAN :
            SaveConfig(args, mk_ok, open_ok)
    \/ \E mk_ok \in MkOutcomes(WrapperSaveDir), open_ok \in BOOLEAN :
            SaveConfigWrapper(mk_ok, open_ok)
    \/ \E f \in LoadFiles : LoadConfig(f)
    \/ \E d \in SettingsDirArgs : \E mk_ok \in MkOutcomes(d) : SetSettingsDir(d, mk_ok)
    \/ Tick

SpecOps == Init /\ [][NextOps]_vars

\* ------------------------------------------------------------- properties
SaveOps == {"save_config", "save_config_wrapper"}
Ops == SaveOps \cup {"load_config", "set_settings_dir"}
ErrorTexts ==
    {"Error saving settings: ", "Error saving settings (IO): ",
     "Error saving settings (write): ", "Error loading file: ",
     "Error setting directory: "}

LastSave == save_log[Len(save_log)]
\* the save was handed one value per registered component
FullArgs(e) == e.op = "save_config" => Len(e.args) = Len(get_components)
\* positions of the registry that hold a widget save is to persist
SavablePositions == {i \in 1..Len(id_to_component) : IsSavable(id_to_component[i][2])}
SavableIds == {id_to_component[i][1] : i \in SavablePositions}
\* the names a save may give its file
FileNames ==
    UNION {{Strftime(t, "-") \o ".json", "settings_" \o Strftime(t, "_") \o ".json"} :
              t \in 0..MaxClock}
\* the yielded dict y tells widget w to adopt v, naming it by handle or by id
HasUpdate(y, w, v) ==
    \E key \in DOMAIN y \ {StatusId} :
        /\ \/ key = w
           \/ key \in DictKeys(id_to_component) /\ get_component_by_id(key) = w
        /\ y[key] = v
Updates(y) == DOMAIN y \ {StatusId}

\* C1: loading the file the last save_config produced yields, for every
\* registered widget that is neither a button nor a file picker and is
\* interactive, an update whose value is the value that save was handed.
C1_RoundTrip ==
    (/\ last.op = "load_config"
     /\ Len(save_log) > 0
     /\ LastSave.op = "save_config" /\ LastSave.saved /\ FullArgs(LastSave)
     /\ last.arg = LastSave.path)
    => \A i \in SavablePositions :
          \E k \in 1..Len(last.yields) :
              HasUpdate(last.yields[k], id_to_component[i][2], LastSave.args[i])

\* C2: the mapping a save writes has exactly the identifiers of the
\* registered savable widgets as keys, each mapped to the widget's value.
C2_SavedMapping ==
    \A n \in 1..Len(save_log) :
        (save_log[n].saved /\ FullArgs(save_log[n]))
        => /\ DOMAIN save_log[n].data = SavableIds
           /\ \A i \in SavablePositions :
                  save_log[n].data[id_to_component[i][1]] = save_log[n].args[i]

\* C3: a load that parsed its file yields an update for every key of the file
\* registered to a widget that is no button and no file picker, none for a key
\* the registry lacks, and a status entry reporting success.
C3_UnknownKeyTolerance ==
    (last.op = "load_config" /\ last.arg # None /\ last.exc = None)
    => LET obj == JsonLoad(files, last.arg)
       IN /\ Len(last.yields) = 1
          /\ StatusId \in DOMAIN last.yields[1]
          /\ last.yields[1][StatusId].prefix = "Settings loaded from "
          /\ \A k \in DOMAIN obj :
                IF k \in DictKeys(id_to_component)
                THEN WidgetClass(get_component_by_id(k)) \notin {"Button", "File"}
                     => HasUpdate(last.yields[1], get_component_by_id(k), obj[k])
                ELSE k \notin Updates(last.yields[1])

\* C4: the saves that reported success wrote distinct files, and each file
\* still holds the mapping its own save dumped.
C4_OneFilePerSave ==
    LET ok == {n \in 1..Len(save_log) : save_log[n].saved}
    IN /\ \A n \in ok :
            /\ save_log[n].path \in DOMAIN files
            /\ files[save_log[n].path] = JsonDump(save_log[n].data)
       /\ \A m, n \in ok : m # n => save_log[m].path # save_log[n].path

\* C5: save, load and set_directory never let an exception out; a failure is
\* returned (or yielded) as a status message that carries the error's text.
C5_NoRaise ==
    last.op \in Ops
    => /\ ~last.raised
       /\ last.ret # NoMsg
       /\ last.exc # None
            => last.ret.prefix \in ErrorTexts /\ last.ret.detail = last.exc
       /\ last.op = "load_config" => last.yields = << (StatusId :> last.ret) >>
C5_Witness ==
    /\ last.op = "save_config" /\ last.exc = "TypeError"
    /\ \E n \in 1..Len(save_log) : save_log[n].op = "save_config_wrapper"

\* C6: the two registry mappings are inverses of each other.
C6_Lockstep ==
    /\ \A i \in DictKeys(id_to_component) :
          /\ get_component_by_id(i) \in DOMAIN component_to_id
          /\ get_id_by_component(get_component_by_id(i)) = i
    /\ \A w \in DOMAIN component_to_id :
          /\ get_id_by_component(w) \in DictKeys(id_to_component)
          /\ get_component_by_id(get_id_by_component(w)) = w

\* C7: a save that reports success has written its file inside the current
\* settings directory, which exists on disk afterwards.
C7_SavesIntoSettingsDir ==
    (last.op \in SaveOps /\ last.exc = None)
    => /\ settings_save_dir \in dirs
       /\ LastSave.path \in DOMAIN files
       /\ LastSave.path \in {PathJoin(settings_save_dir, n) : n \in FileNames}

\* C8: load with nothing selected touches no file, yields exactly the status
\* entry "No file selected" and no widget update, and leaves the registry,
\* the settings directory and the disk as they were.
C8_NoFileSelected ==
    [][(last'.op = "load_config" /\ last'.arg = None)
       => /\ last'.io = 0
          /\ last'.yields = << (StatusId :> Msg("No file selected", None)) >>
          /\ UNCHANGED <<id_to_component, component_to_id, settings_save_dir,
                         dirs, files>>]_vars
C8_Witness == last.op = "load_config" /\ last.arg = None /\ save_log # <<>>

\* C9: every load yields one dict holding the status entry; when the file
\* cannot be read or parsed that dict holds nothing else and the entry
\* carries the error.
C9_LoadFailure ==
    last.op = "load_config"
    => /\ Len(last.yields) = 1
       /\ StatusId \in DOMAIN last.yields[1]
       /\ last.exc # None
            => /\ Updates(last.yields[1]) = {}
               /\ last.yields[1][StatusId] = Msg("Error loading file: ", last.exc)
C9_Witness == last.op = "load_config" /\ last.exc = "JSONDecodeError"

\* C10: set_settings_dir installs the path exactly when the directory could be
\* made, and then the directory exists; on failure the settings directory is
\* the one before the call; a repeat of a call that succeeded succeeds and
\* leaves the settings directory as the first call set it.
C10_SetDirectory ==
    last.op = "set_settings_dir"
    => /\ last.exc = None
            => /\ settings_save_dir = last.arg
               /\ last.arg \in dirs
               /\ last.ret = Msg("Successfully set settings directory to: ", last.arg)
       /\ last.exc # None
            => /\ settings_save_dir = last.prev_dir
               /\ last.ret = Msg("Error setting directory: ", last.exc)
       /\ last.again => last.exc = None /\ last.prev_dir = last.arg
C10_Witness == last.op = "set_settings_dir" /\ last.again /\ last.exc = None
====
